---- MODULE Spec2Model ----
(***************************************************************************)
(* The items / tasks CRUD backend of services/api.                         *)
(*                                                                         *)
(* Three specifications over the same store:                               *)
(*   Spec      the resource handlers of routers/items.py and               *)
(*             routers/tasks.py, one request at a time (a handler is an    *)
(*             `async def` without an await, so one server process runs    *)
(*             it from lookup to response without switching);              *)
(*   AppSpec   HTTP requests dispatched through the route table that       *)
(*             main.py builds, starting from the seeded database;          *)
(*   ConcSpec  two server processes on the same database, interleaved at   *)
(*             the granularity of the statements a handler issues.         *)
(***************************************************************************)
EXTENDS Naturals, Sequences, FiniteSets, TLC

VARIABLES items, tasks, item_seq, task_seq, now, last, sess

vars == <<items, tasks, item_seq, task_seq, now, last, sess>>

-----------------------------------------------------------------------------
(* Bounds of the exploration *)

\* INSERTs explored, over both tables
MaxCreates == 2
\* clock readings explored (created_at values)
MaxClock == 2
\* INSERTs explored while two processes interleave
MaxConcCreates == 1

-----------------------------------------------------------------------------
(* Values *)

\* Python None, SQL NULL, JSON null
NULL == "NULL"
\* a JSON value whose type the field does not accept
WRONG == "WRONG"

Times == [t \in 1 .. (MaxClock + 1) |-> IF t = 1 THEN "t1" ELSE IF t = 2 THEN "t2" ELSE "t3"]

EmptyData == [f \in {} |-> NULL]

\* functions with the given optional keys, each drawn from its value set
Bodies(keys, vals) ==
    UNION {[ks -> UNION {vals[k] : k \in keys}] : ks \in SUBSET keys}

WellTyped(b, vals) == \A k \in DOMAIN b : b[k] \in vals[k]

\* JSON request bodies sent to the item endpoints
ItemValues ==
    [name |-> {"Original", "Updated", NULL},
     description |-> {"desc", NULL},
     price |-> {"25.5", WRONG},
     id |-> {"2"}]

\* a body may also carry an "id" key, which no item shape declares
ItemBodies ==
    {b \in Bodies({"name", "description", "price", "id"}, ItemValues) :
        WellTyped(b, ItemValues)}

\* JSON request bodies sent to the task endpoints
TaskValues ==
    [title |-> {"Task 1", NULL},
     description |-> {"desc", NULL},
     completed |-> {"true", NULL},
     created_at |-> {"t4"}]

\* a body may also carry a "created_at" key
TaskBodies ==
    {b \in Bodies({"title", "description", "completed", "created_at"}, TaskValues) :
        WellTyped(b, TaskValues)}

\* NextId, with a sequence that does not advance
NextId_stuck(seq) == 1

\* the next value of a table's identifier sequence (SERIAL): never reused
NextId(seq) == seq + 1

\* an identifier as it stands in a path, a row and a response
IdText(n) == ToString(n)

\* identifiers a request may name: every generated one and one never generated
Ids == {IdText(n) : n \in 1 .. (MaxCreates + 1)}

-----------------------------------------------------------------------------
(* Transfer shapes (schemas) and persisted shapes (models) *)

ItemCreate ==
    [fields |-> {"name", "description", "price"},
     required |-> {"name", "description", "price"},
     nullable |-> {},
     defaults |-> EmptyData]

\* ItemUpdate, declaring the identifier among the updatable fields
ItemUpdate_with_id ==
    [fields |-> {"name", "description", "price", "id"},
     required |-> {},
     nullable |-> {"name", "description", "price", "id"},
     defaults |-> [name |-> NULL, description |-> NULL, price |-> NULL, id |-> NULL]]

ItemUpdate ==
    [fields |-> {"name", "description", "price"},
     required |-> {},
     nullable |-> {"name", "description", "price"},
     defaults |-> [name |-> NULL, description |-> NULL, price |-> NULL]]

ItemSchema ==
    [fields |-> {"id", "name", "description", "price"},
     nullable |-> {}]

ItemModel ==
    [columns |-> {"id", "name", "description", "price"},
     notnull |-> {"id", "name", "price"}]

TaskCreate ==
    [fields |-> {"title", "description"},
     required |-> {"title"},
     nullable |-> {"description"},
     defaults |-> [description |-> NULL]]

\* TaskUpdate, declaring created_at among the updatable fields
TaskUpdate_with_created_at ==
    [fields |-> {"title", "description", "completed", "created_at"},
     required |-> {},
     nullable |-> {"title", "description", "completed", "created_at"},
     defaults |-> [title |-> NULL, description |-> NULL, completed |-> NULL,
                   created_at |-> NULL]]

TaskUpdate ==
    [fields |-> {"title", "description", "completed"},
     required |-> {},
     nullable |-> {"title", "description", "completed"},
     defaults |-> [title |-> NULL, description |-> NULL, completed |-> NULL]]

TaskSchema ==
    [fields |-> {"id", "title", "description", "completed", "created_at", "updated_at"},
     nullable |-> {"description", "updated_at"}]

TaskModel ==
    [columns |-> {"id", "title", "description", "completed", "created_at", "updated_at"},
     notnull |-> {"id", "title"}]

-----------------------------------------------------------------------------
(* Request validation and dumping (pydantic) *)

\* the body parses into the shape: required fields present, no value of a
\* wrong type, null only where the field is Optional; undeclared keys ignored
Validate(schema, body) ==
    /\ schema.required \subseteq DOMAIN body
    /\ \A f \in (DOMAIN body) \cap schema.fields :
          /\ body[f] # WRONG
          /\ body[f] = NULL => f \in schema.nullable

model_dump(schema, body) ==
    [f \in schema.fields |-> IF f \in DOMAIN body THEN body[f] ELSE schema.defaults[f]]

model_dump_exclude_unset(schema, body) ==
    [f \in schema.fields \cap (DOMAIN body) |-> body[f]]

-----------------------------------------------------------------------------
(* The session (SQLAlchemy unit of work over the database) *)

\* column defaults applied by the INSERT
ColumnDefault(f, t) ==
    CASE f = "completed" -> "false"
      [] f = "created_at" -> Times[t]
      [] OTHER -> NULL

\* NewRow, with the description left out of the INSERT
NewRow_without_description(model, data, id, t) ==
    [f \in model.columns |->
        IF f = "id" THEN id
        ELSE IF f \in DOMAIN data /\ f # "description" THEN data[f]
        ELSE ColumnDefault(f, t)]

\* Model(**data), then the INSERT with the generated primary key
NewRow(model, data, id, t) ==
    [f \in model.columns |->
        IF f = "id" THEN id
        ELSE IF f \in DOMAIN data THEN data[f]
        ELSE ColumnDefault(f, t)]

NotNullOK(model, row) ==
    \A f \in model.notnull : row[f] # NULL

\* db.query(Model).filter(Model.id == id).first(): <<>> is None
first(table, id) ==
    LET found == SelectSeq(table, LAMBDA r : r.id = id)
    IN  IF found = <<>> THEN <<>> ELSE <<found[1]>>

\* attributes whose value setattr changed from the loaded one; only these
\* enter the UPDATE statement
Dirty(loaded, update_data) ==
    {f \in DOMAIN update_data : update_data[f] # loaded[f]}

\* commit_update, with an optimistic version check: the row must still be
\* the one that was loaded
commit_update_versioned(table, model, loaded, update_data) ==
    LET dirty == Dirty(loaded, update_data)
        hit == {i \in 1 .. Len(table) : table[i] = loaded}
    IN  IF dirty = {} THEN [err |-> "none", table |-> table]
        ELSE IF hit = {} THEN [err |-> "stale", table |-> table]
        ELSE IF \E f \in dirty \cap model.notnull : update_data[f] = NULL
        THEN [err |-> "integrity", table |-> table]
        ELSE [err |-> "none",
              table |-> [i \in 1 .. Len(table) |->
                           IF i \in hit
                           THEN [f \in DOMAIN table[i] |->
                                   IF f \in dirty THEN update_data[f] ELSE table[i][f]]
                           ELSE table[i]]]

\* the flush and commit of an update: UPDATE ... SET <dirty> WHERE id = loaded.id
commit_update(table, model, loaded, update_data) ==
    LET dirty == Dirty(loaded, update_data)
        hit == {i \in 1 .. Len(table) : table[i].id = loaded.id}
    IN  IF dirty = {} THEN [err |-> "none", table |-> table]
        ELSE IF hit = {} THEN [err |-> "stale", table |-> table]
        ELSE IF \E f \in dirty \cap model.notnull : update_data[f] = NULL
        THEN [err |-> "integrity", table |-> table]
        ELSE [err |-> "none",
              table |-> [i \in 1 .. Len(table) |->
                           IF i \in hit
                           THEN [f \in DOMAIN table[i] |->
                                   IF f \in dirty THEN update_data[f] ELSE table[i][f]]
                           ELSE table[i]]]

\* the flush and commit of db.delete: DELETE ... WHERE id = loaded.id
commit_delete(table, loaded) ==
    SelectSeq(table, LAMBDA r : r.id # loaded.id)

\* response_model validation of one returned row
ReadShapeOK(schema, row) ==
    \A f \in schema.fields : row[f] = NULL => f \in schema.nullable

AllReadable(schema, rows) ==
    \A i \in 1 .. Len(rows) : ReadShapeOK(schema, rows[i])

Response(op, res, id, data, status, body) ==
    [op |-> op, res |-> res, id |-> id, data |-> data, status |-> status, body |-> body]

NoResponse == Response("none", "none", "", EmptyData, 0, <<>>)

\* the server processes attached to the database
Workers == {1, 2}

\* a process between requests; then its last request and how it ended
Session(pc, op, res, id, data, loaded, status) ==
    [pc |-> pc, op |-> op, res |-> res, id |-> id, data |-> data,
     loaded |-> loaded, status |-> status]

Idle == Session("idle", "none", "none", "", EmptyData, <<>>, 0)

-----------------------------------------------------------------------------
(* routers/items.py *)

get_items ==
    /\ last' = IF AllReadable(ItemSchema, items)
               THEN Response("list", "items", "", EmptyData, 200, items)
               ELSE Response("list", "items", "", EmptyData, 500, <<>>)
    /\ UNCHANGED <<items, tasks, item_seq, task_seq, now, sess>>

create_item(item) ==
    LET db_item == NewRow(ItemModel, model_dump(ItemCreate, item), IdText(NextId(item_seq)), now)
    IN  /\ UNCHANGED <<tasks, task_seq, now, sess>>
        /\ IF ~Validate(ItemCreate, item)
           THEN /\ last' = Response("create", "items", "", EmptyData, 422, <<>>)
                /\ UNCHANGED <<items, item_seq>>
           ELSE /\ item_seq' = NextId(item_seq)
                /\ IF ~NotNullOK(ItemModel, db_item)
                   THEN /\ items' = items
                        /\ last' = Response("create", "items", "", EmptyData, 500, <<>>)
                   ELSE /\ items' = Append(items, db_item)
                        /\ last' = IF ReadShapeOK(ItemSchema, db_item)
                                   THEN Response("create", "items", db_item.id,
                                                 model_dump(ItemCreate, item), 201, <<db_item>>)
                                   ELSE Response("create", "items", db_item.id,
                                                 model_dump(ItemCreate, item), 500, <<>>)

get_item(item_id) ==
    LET item == first(items, item_id)
    IN  /\ last' = IF item = <<>>
                   THEN Response("get", "items", item_id, EmptyData, 404, <<>>)
                   ELSE IF ReadShapeOK(ItemSchema, item[1])
                   THEN Response("get", "items", item_id, EmptyData, 200, item)
                   ELSE Response("get", "items", item_id, EmptyData, 500, <<>>)
        /\ UNCHANGED <<items, tasks, item_seq, task_seq, now, sess>>

update_item(item_id, item_update) ==
    LET item == first(items, item_id)
        update_data == model_dump_exclude_unset(ItemUpdate, item_update)
        done == commit_update(items, ItemModel, item[1], update_data)
        fresh == first(done.table, item_id)
    IN  /\ UNCHANGED <<tasks, item_seq, task_seq, now, sess>>
        /\ IF ~Validate(ItemUpdate, item_update)
           THEN /\ last' = Response("update", "items", item_id, EmptyData, 422, <<>>)
                /\ items' = items
           ELSE IF item = <<>>
           THEN /\ last' = Response("update", "items", item_id, EmptyData, 404, <<>>)
                /\ items' = items
           ELSE IF done.err # "none"
           THEN /\ last' = Response("update", "items", item_id, update_data, 500, <<>>)
                /\ items' = items
           ELSE /\ items' = done.table
                /\ last' = IF fresh # <<>> /\ ReadShapeOK(ItemSchema, fresh[1])
                           THEN Response("update", "items", item_id, update_data, 200, fresh)
                           ELSE Response("update", "items", item_id, update_data, 500, <<>>)

\* delete_item, without the lookup's 404: an absent item is deleted silently
delete_item_silent(item_id) ==
    LET item == first(items, item_id)
    IN  /\ UNCHANGED <<tasks, item_seq, task_seq, now, sess>>
        /\ items' = SelectSeq(items, LAMBDA r : r.id # item_id)
        /\ last' = Response("delete", "items", item_id, EmptyData, 204, <<>>)

delete_item(item_id) ==
    LET item == first(items, item_id)
    IN  /\ UNCHANGED <<tasks, item_seq, task_seq, now, sess>>
        /\ IF item = <<>>
           THEN /\ last' = Response("delete", "items", item_id, EmptyData, 404, <<>>)
                /\ items' = items
           ELSE /\ items' = commit_delete(items, item[1])
                /\ last' = Response("delete", "items", item_id, EmptyData, 204, <<>>)

-----------------------------------------------------------------------------
(* routers/tasks.py *)

get_tasks ==
    /\ last' = IF AllReadable(TaskSchema, tasks)
               THEN Response("list", "tasks", "", EmptyData, 200, tasks)
               ELSE Response("list", "tasks", "", EmptyData, 500, <<>>)
    /\ UNCHANGED <<items, tasks, item_seq, task_seq, now, sess>>

create_task(task, t) ==
    LET db_task == NewRow(TaskModel, model_dump(TaskCreate, task), IdText(NextId(task_seq)), t)
    IN  /\ UNCHANGED <<items, item_seq, sess>>
        /\ now' = t
        /\ IF ~Validate(TaskCreate, task)
           THEN /\ last' = Response("create", "tasks", "", EmptyData, 422, <<>>)
                /\ UNCHANGED <<tasks, task_seq>>
           ELSE /\ task_seq' = NextId(task_seq)
                /\ IF ~NotNullOK(TaskModel, db_task)
                   THEN /\ tasks' = tasks
                        /\ last' = Response("create", "tasks", "", EmptyData, 500, <<>>)
                   ELSE /\ tasks' = Append(tasks, db_task)
                        /\ last' = IF ReadShapeOK(TaskSchema, db_task)
                                   THEN Response("create", "tasks", db_task.id,
                                                 model_dump(TaskCreate, task), 201, <<db_task>>)
                                   ELSE Response("create", "tasks", db_task.id,
                                                 model_dump(TaskCreate, task), 500, <<>>)

get_task(task_id) ==
    LET task == first(tasks, task_id)
    IN  /\ last' = IF task = <<>>
                   THEN Response("get", "tasks", task_id, EmptyData, 404, <<>>)
                   ELSE IF ReadShapeOK(TaskSchema, task[1])
                   THEN Response("get", "tasks", task_id, EmptyData, 200, task)
                   ELSE Response("get", "tasks", task_id, EmptyData, 500, <<>>)
        /\ UNCHANGED <<items, tasks, item_seq, task_seq, now, sess>>

update_task(task_id, task_update) ==
    LET task == first(tasks, task_id)
        update_data == model_dump_exclude_unset(TaskUpdate, task_update)
        done == commit_update(tasks, TaskModel, task[1], update_data)
        fresh == first(done.table, task_id)
    IN  /\ UNCHANGED <<items, item_seq, task_seq, now, sess>>
        /\ IF ~Validate(TaskUpdate, task_update)
           THEN /\ last' = Response("update", "tasks", task_id, EmptyData, 422, <<>>)
                /\ tasks' = tasks
           ELSE IF task = <<>>
           THEN /\ last' = Response("update", "tasks", task_id, EmptyData, 404, <<>>)
                /\ tasks' = tasks
           ELSE IF done.err # "none"
           THEN /\ last' = Response("update", "tasks", task_id, update_data, 500, <<>>)
                /\ tasks' = tasks
           ELSE /\ tasks' = done.table
                /\ last' = IF fresh # <<>> /\ ReadShapeOK(TaskSchema, fresh[1])
                           THEN Response("update", "tasks", task_id, update_data, 200, fresh)
                           ELSE Response("update", "tasks", task_id, update_data, 500, <<>>)

delete_task(task_id) ==
    LET task == first(tasks, task_id)
    IN  /\ UNCHANGED <<items, item_seq, task_seq, now, sess>>
        /\ IF task = <<>>
           THEN /\ last' = Response("delete", "tasks", task_id, EmptyData, 404, <<>>)
                /\ tasks' = tasks
           ELSE /\ tasks' = commit_delete(tasks, task[1])
                /\ last' = Response("delete", "tasks", task_id, EmptyData, 204, <<>>)

-----------------------------------------------------------------------------
(* The handlers, one request at a time *)

\* the clock readings a request arriving now or later may see
Clock == now .. MaxClock

\* INSERTs are explored while fewer rows than the bound were ever inserted
Budget(schema, body) ==
    Validate(schema, body) => item_seq + task_seq < MaxCreates

Init ==
    /\ items = <<>>
    /\ tasks = <<>>
    /\ item_seq = 0
    /\ task_seq = 0
    /\ now = 1
    /\ last = NoResponse
    /\ sess = [w \in Workers |-> Idle]

Next ==
    \/ get_items
    \/ \E item \in ItemBodies : Budget(ItemCreate, item) /\ create_item(item)
    \/ \E item_id \in Ids : get_item(item_id)
    \/ \E item_id \in Ids, item_update \in ItemBodies : update_item(item_id, item_update)
    \/ \E item_id \in Ids : delete_item(item_id)
    \/ get_tasks
    \/ \E task \in TaskBodies, t \in Clock : Budget(TaskCreate, task) /\ create_task(task, t)
    \/ \E task_id \in Ids : get_task(task_id)
    \/ \E task_id \in Ids, task_update \in TaskBodies : update_task(task_id, task_update)
    \/ \E task_id \in Ids : delete_task(task_id)

Spec == Init /\ [][Next]_vars

-----------------------------------------------------------------------------
(* main.py: the application and its route table *)

\* seed_database: the table is empty at the first start
sample_items ==
    <<[id |-> "1", name |-> "Widget", description |-> "A useful widget for your desk",
       price |-> "9.99"],
      [id |-> "2", name |-> "Gadget", description |-> "A fancy gadget with buttons",
       price |-> "19.99"],
      [id |-> "3", name |-> "Gizmo", description |-> "An amazing gizmo that does things",
       price |-> "29.99"]>>

\* app.include_router(tasks.router) and the two @app.get item routes
Routes ==
    {[method |-> "GET", path |-> "/tasks", endpoint |-> "get_tasks"],
     [method |-> "POST", path |-> "/tasks", endpoint |-> "create_task"],
     [method |-> "GET", path |-> "/tasks/{id}", endpoint |-> "get_task"],
     [method |-> "PATCH", path |-> "/tasks/{id}", endpoint |-> "update_task"],
     [method |-> "DELETE", path |-> "/tasks/{id}", endpoint |-> "delete_task"],
     [method |-> "GET", path |-> "/items", endpoint |-> "get_items"],
     [method |-> "GET", path |-> "/items/{id}", endpoint |-> "get_item"]}

Path(res, kind) ==
    IF res = "items"
    THEN (IF kind = "collection" THEN "/items" ELSE "/items/{id}")
    ELSE (IF kind = "collection" THEN "/tasks" ELSE "/tasks/{id}")

\* the router's match: the endpoint, or the error status when none serves it
Match(method, path) ==
    LET on_path == {r \in Routes : r.path = path}
        served == {r \in on_path : r.method = method}
    IN  IF on_path = {} THEN [endpoint |-> "none", status |-> 404]
        ELSE IF served = {} THEN [endpoint |-> "none", status |-> 405]
        ELSE [endpoint |-> (CHOOSE r \in served : TRUE).endpoint, status |-> 0]

AppIds == {IdText(n) : n \in 1 .. (Len(sample_items) + 1)}

\* one HTTP request on the surface, routed and served
Request(method, res, kind, id, body, t) ==
    LET m == Match(method, Path(res, kind))
    IN  CASE m.endpoint = "none" ->
               /\ last' = Response("unrouted", res, id, EmptyData, m.status, <<>>)
               /\ UNCHANGED <<items, tasks, item_seq, task_seq, now, sess>>
          [] m.endpoint = "get_items" -> get_items
          [] m.endpoint = "get_item" -> get_item(id)
          [] m.endpoint = "get_tasks" -> get_tasks
          [] m.endpoint = "create_task" ->
               (Validate(TaskCreate, body) => task_seq < MaxCreates)
               /\ create_task(body, t)
          [] m.endpoint = "get_task" -> get_task(id)
          [] m.endpoint = "update_task" -> update_task(id, body)
          [] m.endpoint = "delete_task" -> delete_task(id)

\* lifespan: create the tables, seed the items
AppInit ==
    /\ items = sample_items
    /\ item_seq = Len(sample_items)
    /\ tasks = <<>>
    /\ task_seq = 0
    /\ now = 1
    /\ last = NoResponse
    /\ sess = [w \in Workers |-> Idle]

\* the identifiers and bodies explored per resource; the body of a request
\* that no route serves is never read
AppIdsOf(res) == IF res = "items" THEN AppIds ELSE Ids

AppBodiesOf(res) == IF res = "items" THEN {EmptyData} ELSE TaskBodies

\* the HTTP surface: five operations on each resource. The body and the clock
\* reading matter to POST and PATCH only, the id to the member paths only
AppNext ==
    \/ \E res \in {"items", "tasks"} :
          Request("GET", res, "collection", "", EmptyData, now)
    \/ \E res \in {"items", "tasks"}, t \in Clock :
          \E body \in AppBodiesOf(res) :
             Request("POST", res, "collection", "", body, t)
    \/ \E res \in {"items", "tasks"}, method \in {"GET", "DELETE"} :
          \E id \in AppIdsOf(res) :
             Request(method, res, "member", id, EmptyData, now)
    \/ \E res \in {"items", "tasks"} :
          \E id \in AppIdsOf(res), body \in AppBodiesOf(res) :
             Request("PATCH", res, "member", id, body, now)

AppSpec == AppInit /\ [][AppNext]_vars

-----------------------------------------------------------------------------
(* Two server processes on one database: the statements of update_item /
   update_task and delete_item / delete_task, interleaved.  A process runs
   one handler at a time; the other process runs between its statements. *)

Table(res) == IF res = "items" THEN items ELSE tasks

SetTable(res, table) ==
    IF res = "items"
    THEN items' = table /\ UNCHANGED tasks
    ELSE tasks' = table /\ UNCHANGED items

ModelOf(res) == IF res = "items" THEN ItemModel ELSE TaskModel

UpdateShape(res) == IF res = "items" THEN ItemUpdate ELSE TaskUpdate

ReadShape(res) == IF res = "items" THEN ItemSchema ELSE TaskSchema

\* the task fields patched while two processes interleave
ConcTaskValues ==
    [description |-> {"desc", NULL},
     completed |-> {"true", "false"}]

\* the update bodies explored while two processes interleave: two declared
\* fields of each resource, each absent or set
ConcBodies(res) ==
    IF res = "items"
    THEN {b \in ItemBodies : DOMAIN b \subseteq {"name", "description"}
                              /\ ("name" \in DOMAIN b => b.name # NULL)}
    ELSE {b \in Bodies({"description", "completed"}, ConcTaskValues) :
             WellTyped(b, ConcTaskValues)}

Free(w) == sess[w].pc \in {"idle", "done"}

\* the response is sent and the session closed: the process keeps nothing
\* of the request but how it ended
Finish(w, op, status) ==
    sess' = [sess EXCEPT ![w] = Session("done", op, "none", "", EmptyData, <<>>, status)]

\* the lookup and the setattr loop of an update: nothing is locked
begin_update(w, res, id, body) ==
    LET found == first(Table(res), id)
        update_data == model_dump_exclude_unset(UpdateShape(res), body)
    IN  /\ Free(w)
        /\ UNCHANGED <<items, tasks, item_seq, task_seq, now, last>>
        /\ IF ~Validate(UpdateShape(res), body)
           THEN Finish(w, "update", 422)
           ELSE IF found = <<>>
           THEN Finish(w, "update", 404)
           ELSE sess' = [sess EXCEPT ![w] =
                           Session("loaded", "update", res, id, update_data, found, 0)]

\* db.commit() of an update: the UPDATE of the dirty columns
flush_update(w) ==
    LET s == sess[w]
        done == commit_update(Table(s.res), ModelOf(s.res), s.loaded[1], s.data)
    IN  /\ s.pc = "loaded" /\ s.op = "update"
        /\ UNCHANGED <<item_seq, task_seq, now, last>>
        /\ IF done.err # "none"
           THEN Finish(w, "update", 500) /\ UNCHANGED <<items, tasks>>
           ELSE /\ SetTable(s.res, done.table)
                /\ sess' = [sess EXCEPT ![w].pc = "committed"]

\* db.refresh(entity) and the response
refresh_update(w) ==
    LET s == sess[w]
        fresh == first(Table(s.res), s.id)
    IN  /\ s.pc = "committed"
        /\ UNCHANGED <<items, tasks, item_seq, task_seq, now, last>>
        /\ IF fresh = <<>> THEN Finish(w, "update", 500)
           ELSE IF ReadShapeOK(ReadShape(s.res), fresh[1]) THEN Finish(w, "update", 200)
           ELSE Finish(w, "update", 500)

\* the lookup of a delete
begin_delete(w, res, id) ==
    LET found == first(Table(res), id)
    IN  /\ Free(w)
        /\ UNCHANGED <<items, tasks, item_seq, task_seq, now, last>>
        /\ IF found = <<>>
           THEN Finish(w, "delete", 404)
           ELSE sess' = [sess EXCEPT ![w] =
                           Session("loaded", "delete", res, id, EmptyData, found, 0)]

\* db.delete(entity); db.commit(): a DELETE that matches no row only warns
flush_delete(w) ==
    LET s == sess[w]
    IN  /\ s.pc = "loaded" /\ s.op = "delete"
        /\ UNCHANGED <<item_seq, task_seq, now, last>>
        /\ SetTable(s.res, commit_delete(Table(s.res), s.loaded[1]))
        /\ Finish(w, "delete", 204)

ConcNext ==
    \/ /\ \E w \in Workers : Free(w)
       /\ item_seq + task_seq < MaxConcCreates
       /\ \E item \in ItemBodies : create_item(item)
    \/ /\ \E w \in Workers : Free(w)
       /\ item_seq + task_seq < MaxConcCreates
       /\ \E task \in TaskBodies : create_task(task, now)
    \/ \E w \in Workers, res \in {"items", "tasks"} :
          \E id \in Ids, body \in ConcBodies(res) : begin_update(w, res, id, body)
    \/ \E w \in Workers : flush_update(w)
    \/ \E w \in Workers : refresh_update(w)
    \/ \E w \in Workers, res \in {"items", "tasks"}, id \in Ids : begin_delete(w, res, id)
    \/ \E w \in Workers : flush_delete(w)

ConcSpec == Init /\ [][ConcNext]_vars

-----------------------------------------------------------------------------
(* Notation of the properties *)

Has(table, id) == \E i \in 1 .. Len(table) : table[i].id = id

RowOf(table, id) == table[CHOOSE i \in 1 .. Len(table) : table[i].id = id]

TableNext(res) == IF res = "items" THEN items' ELSE tasks'

OtherTableUnchanged(res) == IF res = "items" THEN tasks' = tasks ELSE items' = items

SeqOf(res) == IF res = "items" THEN item_seq ELSE task_seq

\* the identifier was generated by an earlier create
Generated(res, id) == \E n \in 1 .. SeqOf(res) : IdText(n) = id

StoreUnchanged == UNCHANGED <<items, tasks, item_seq, task_seq>>

\* the row with update_data laid over it
Patched(row, update_data) ==
    [f \in DOMAIN row |-> IF f \in DOMAIN update_data THEN update_data[f] ELSE row[f]]

-----------------------------------------------------------------------------
(* C1: a PATCH of a stored entity with a well-formed partial-update payload U
   returns 200, sets exactly the fields named in U to U's values, leaves the
   entity's other fields (the id among them), every other entity and the
   other table as they were, and returns the entity as stored afterwards. *)
C1_PartialUpdateFrame ==
    [][(last'.op = "update" /\ last'.status # 422 /\ Has(Table(last'.res), last'.id)) =>
          LET res == last'.res
              id == last'.id
              before == Table(res)
              after == TableNext(res)
          IN  /\ last'.status = 200
              /\ Len(after) = Len(before)
              /\ \A i \in 1 .. Len(before) :
                    after[i] = IF before[i].id = id
                               THEN Patched(before[i], last'.data)
                               ELSE before[i]
              /\ OtherTableUnchanged(res)
              /\ last'.body = <<RowOf(after, id)>>]_vars

(* C2: a create with a valid payload P returns 201 with an entity that carries
   P's fields, a generated id and the defaults; it appends exactly that
   entity and leaves every stored entity as it was; a get-by-id of that id
   issued next returns the identical entity. *)
C2_CreateThenGet ==
    [][/\ (last'.op = "create" /\ last'.status # 422) =>
             LET res == last'.res
                 e == last'.body[1]
             IN  /\ last'.status = 201
                 /\ Len(last'.body) = 1
                 /\ \A f \in DOMAIN last'.data : e[f] = last'.data[f]
                 /\ e.id = last'.id /\ ~Has(Table(res), e.id)
                 /\ res = "tasks" => e.completed = "false" /\ e.created_at # NULL
                                      /\ e.updated_at = NULL
                 /\ TableNext(res) = Append(Table(res), e)
                 /\ OtherTableUnchanged(res)
       /\ (/\ last.op = "create" /\ last.status = 201
           /\ last'.op = "get" /\ last'.res = last.res /\ last'.id = last.id) =>
             last'.status = 200 /\ last'.body = last.body]_vars

C2_Witness ==
    /\ last.op = "create" /\ last.status = 201
    /\ Len(Table(last.res)) = 2

(* C3: get-by-id, update (any well-formed payload) and delete of an identifier
   that is not in the store, never created or already deleted, answer 404 and
   leave the store as it was. *)
C3_AbsentIsNotFound ==
    [][(/\ last'.op \in {"get", "update", "delete"}
        /\ last'.status # 422
        /\ ~Has(Table(last'.res), last'.id)) =>
          last'.status = 404 /\ StoreUnchanged]_vars

C3_Witness ==
    /\ last.op = "update" /\ last.status = 404
    /\ Generated(last.res, last.id)
    /\ Len(Table(last.res)) = 1

(* C4: the first delete of a stored entity returns 204 and removes exactly
   that entity; from then on the identifier stays absent from the table, so
   from list, and every later get-by-id and delete of it answers 404. *)
C4_DeleteOnceThenNotFound ==
    [][/\ (last'.op = "delete" /\ Has(Table(last'.res), last'.id)) =>
             /\ last'.status = 204
             /\ TableNext(last'.res) =
                   SelectSeq(Table(last'.res), LAMBDA r : r.id # last'.id)
             /\ Len(TableNext(last'.res)) = Len(Table(last'.res)) - 1
             /\ OtherTableUnchanged(last'.res)
       /\ \A res \in {"items", "tasks"}, id \in Ids :
             (Generated(res, id) /\ ~Has(Table(res), id)) =>
                /\ ~Has(TableNext(res), id)
                /\ (last'.op \in {"get", "delete"} /\ last'.res = res /\ last'.id = id) =>
                      last'.status = 404
                /\ (last'.op = "list" /\ last'.res = res /\ last'.status = 200) =>
                      ~Has(last'.body, id)]_vars

C4_Witness ==
    /\ last.op = "delete" /\ last.status = 404
    /\ Generated(last.res, last.id)
    /\ Len(Table(last.res)) = 1

(* C5: each of the five operations on each resource is routed to a handler of
   the running application and answers its success code: 200 for list, 201
   for create, 200 for get-by-id, 200 for update, 204 for delete. *)
C5_EveryOperationServed ==
    /\ last.op # "unrouted"
    /\ last.status \in {200, 201, 204} =>
          last.status = CASE last.op = "create" -> 201
                          [] last.op = "delete" -> 204
                          [] OTHER -> 200

(* C6: no two stored entities of a resource share an identifier; a create adds
   one entity whose identifier is none of those in the store, also when its
   payload repeats an earlier one; an update changes no identifier. *)
UniqueIds(table) ==
    \A i, j \in 1 .. Len(table) : i # j => table[i].id # table[j].id

IdsOf(table) == [i \in 1 .. Len(table) |-> table[i].id]

C6_IdentifiersUniqueAndStable ==
    /\ [](UniqueIds(items) /\ UniqueIds(tasks))
    /\ [][/\ (last'.op = "create" /\ last'.status = 201) =>
                 /\ ~Has(Table(last'.res), last'.id)
                 /\ IdsOf(TableNext(last'.res)) = Append(IdsOf(Table(last'.res)), last'.id)
          /\ last'.op = "update" =>
                 /\ IdsOf(items') = IdsOf(items)
                 /\ IdsOf(tasks') = IdsOf(tasks)]_vars

C6_Witness ==
    /\ last.op = "create" /\ last.status = 201 /\ last.res = "items"
    /\ Len(items) = 2
    /\ \A f \in {"name", "description", "price"} : items[1][f] = items[2][f]
    /\ items[1].id # items[2].id

(* C7: a task is created with completed false, created_at set to the time of
   the request and updated_at null, whatever the body carries; no request
   changes the created_at of a stored task, and updated_at stays null. *)
C7_TaskTimestamps ==
    /\ [](\A i \in 1 .. Len(tasks) :
             tasks[i].updated_at = NULL /\ tasks[i].created_at # NULL)
    /\ [][/\ (last'.op = "create" /\ last'.res = "tasks" /\ last'.status = 201) =>
                 /\ last'.body[1].completed = "false"
                 /\ last'.body[1].created_at = Times[now']
          /\ \A i \in 1 .. Len(tasks), j \in 1 .. Len(tasks') :
                 tasks[i].id = tasks'[j].id =>
                    tasks'[j].created_at = tasks[i].created_at]_vars

C7_Witness ==
    /\ last.op = "update" /\ last.res = "tasks" /\ last.status = 200
    /\ "completed" \in DOMAIN last.data
    /\ last.body[1].completed = "true"
    /\ last.body[1].created_at = Times[2]
    /\ last.body[1].updated_at = NULL

(* C8: an update whose payload sets a field to null, where the stored column
   accepts null, stores null in that field, answers 200 and returns the
   entity with that field null. *)
NullFields(update_data) == {f \in DOMAIN update_data : update_data[f] = NULL}

C8_ExplicitNullApplied ==
    [][(/\ last'.op = "update" /\ last'.status # 422
        /\ Has(Table(last'.res), last'.id)
        /\ NullFields(last'.data) # {}
        /\ NullFields(last'.data) \cap ModelOf(last'.res).notnull = {}) =>
          /\ last'.status = 200
          /\ Len(last'.body) = 1
          /\ \A f \in NullFields(last'.data) :
                /\ RowOf(TableNext(last'.res), last'.id)[f] = NULL
                /\ last'.body[1][f] = NULL]_vars

(* C9: every stored entity can be returned in its read shape, so that list
   and get-by-id never fail on an entity that exists. *)
C9_EveryStoredEntityReadable ==
    /\ AllReadable(ItemSchema, items)
    /\ AllReadable(TaskSchema, tasks)
    /\ last.op \in {"list", "get"} => last.status # 500

(* C10: nothing is locked and no version is checked between the lookup and
   the commit of an update: the commit of a loaded entity that still exists
   writes its changed fields, whatever another request committed since the
   lookup.  The witness is the lost update: two updates of the same entity,
   both loaded from the same row, both committed, and the row, readable in
   its read shape, is the result of neither serial order. *)
C10_CommitChecksNoVersion ==
    [][\A w \in Workers :
         (/\ sess[w].pc = "loaded" /\ sess[w].op = "update"
          /\ sess'[w] # sess[w]
          /\ Has(Table(sess[w].res), sess[w].id)
          /\ NullFields(sess[w].data) \cap ModelOf(sess[w].res).notnull = {}) =>
            /\ sess'[w].pc = "committed"
            /\ \A f \in Dirty(sess[w].loaded[1], sess[w].data) :
                  RowOf(TableNext(sess[w].res), sess[w].id)[f] = sess[w].data[f]]_vars

C10_LostUpdate ==
    \E a, b \in Workers :
       /\ a # b
       /\ sess[a].pc = "committed" /\ sess[b].pc = "committed"
       /\ sess[a].res = sess[b].res /\ sess[a].id = sess[b].id
       /\ sess[a].loaded = sess[b].loaded
       /\ Has(Table(sess[a].res), sess[a].id)
       /\ ReadShapeOK(ReadShape(sess[a].res), RowOf(Table(sess[a].res), sess[a].id))
       /\ LET row == sess[a].loaded[1]
              ab == Patched(Patched(row, sess[a].data), sess[b].data)
              ba == Patched(Patched(row, sess[b].data), sess[a].data)
          IN  RowOf(Table(sess[a].res), sess[a].id) \notin {ab, ba}

====
